---- MODULE Spec2Model ----
(***************************************************************************)
(* Model of src/src/order.py: the OrderIDGenerator (the global             *)
(* id_generator) and one Order object with its fill/cancel lifecycle.      *)
(*                                                                         *)
(* Numbers that reach _validate may be ints or floats.  A quantity is the  *)
(* record [isint, twice]: isint is isinstance(quantity, int) and twice is  *)
(* two times its value, so that 1.5 and 2.0 are both representable.  An    *)
(* optional value (price, an explicit order_id) is [some, v].              *)
(*                                                                         *)
(* SpecAlloc follows the allocator and the constructor calls from the      *)
(* module as imported; Spec follows fill and cancel on one Order from the  *)
(* state its construction leaves.  Calls are serialized, as the code's     *)
(* single-threaded callers make them.  SpecGen follows one                 *)
(* OrderIDGenerator(start) instance, SpecEq two Orders and their           *)
(* comparison, and SpecConc two callers whose next() calls interleave.     *)
(***************************************************************************)
EXTENDS Integers, Sequences, FiniteSets, TLC

\* ---------------------------------------------------------------- bounds
MaxQty  == 3     \* largest quantity a caller asks for
MaxId   == 3     \* the allocator issues identifiers below its start + MaxId
MaxCalls == 3    \* the history `calls` keeps the first MaxCalls calls on an order
MaxStart == 5    \* largest start an OrderIDGenerator instance is built with

VARIABLES
    current,   \* id_generator._current
    order,     \* the Order object the caller holds, or NoOrder
    last,      \* the most recent call: what it was given and what it returned
    issued,    \* history: identifiers returned by next() since the last reset
    created,   \* history: order_id of the orders built with the default id since the last reset
    calls,     \* history: the fill/cancel calls made on `order`, while at most MaxCalls
    total,     \* history: sum of the quantities the successful fills of `order` returned
    gen,       \* the allocator: the start it was built with, and history: the first id it returned
    other,     \* a second Order object, or NoOrder
    thr        \* the callers inside next(): where each is, and what it has read

vars == <<current, order, last, issued, created, calls, total, gen, other, thr>>

\* ----------------------------------------------------------------- enums
Side        == {"BUY", "SELL"}
OrderType   == {"LIMIT", "MARKET"}
OrderStatus == {"PENDING", "PARTIALLY_FILLED", "FILLED", "CANCELLED"}

\* ---------------------------------------------------------------- inputs
None     == [some |-> FALSE, v |-> 0]
Some(x)  == [some |-> TRUE, v |-> x]
IntQ(n)  == [isint |-> TRUE, twice |-> 2 * n]

\* The code reads a price only in `price is None` and `price <= 0`, a quantity at
\* construction only in `quantity <= 0` and isinstance(quantity, int), never reads
\* a timestamp, and never reads an order_id it was given: one value of each
\* kind the code tells apart (and two where it tells none apart) stands for all.
\* fill does arithmetic on the quantity, so the orders whose lifecycle is
\* followed have every quantity up to MaxQty.
QuantityInputs == {IntQ(-1), IntQ(0), IntQ(1), IntQ(2),
                   [isint |-> FALSE, twice |-> 3], [isint |-> FALSE, twice |-> 4]}
Quantities     == {IntQ(n) : n \in 1..MaxQty}
PriceInputs    == {None, Some(-1), Some(0), Some(1)}
IdInputs       == {None, Some(1), Some(2)}
Timestamps     == {0, 1}
FillInputs     == -1..(MaxQty + 1)

NoOrder == [status |-> "NONE"]
NoCall  == [op |-> "none"]
More    == <<[op |-> "more"]>>

\* OrderIDGenerator(start): the start an instance is built with
StartInputs == 1..MaxStart
\* The two callers of the concurrent specification
Threads == {1, 2}
Idle    == [pc |-> [t \in Threads |-> "idle"], order_id |-> [t \in Threads |-> 0],
            tmp |-> [t \in Threads |-> 0], overlapped |-> FALSE]

\* OrderIDGenerator.__init__: self._current = start
OrderIDGenerator_init(start) == [start |-> start, first |-> 0]
\* History: the first identifier the allocator g returned
Drawn(g, id) == IF g.first = 0 THEN [g EXCEPT !.first = id] ELSE g

\* ---------------------------------------------------- OrderIDGenerator
\* Mutant of OrderIDGenerator_next: the counter is incremented before it is read
next_pre_increment(c) == [order_id |-> c + 1, _current |-> c + 1]

\* next(): order_id = self._current; self._current += 1; return order_id
OrderIDGenerator_next(c) == [order_id |-> c, _current |-> c + 1]

\* reset(): self._current = 1
OrderIDGenerator_reset(c) == 1

\* ------------------------------------------------------------------ Order
\* Mutants of _validate.
\* The quantity is checked before the price.
validate_quantity_first(order_type, quantity, price) ==
    IF quantity.twice <= 0
    THEN "Quantity must be positive"
    ELSE IF ~quantity.isint
    THEN "Quantity must be an integer"
    ELSE IF order_type = "LIMIT" /\ ~price.some
    THEN "Limit order must have a price"
    ELSE IF order_type = "LIMIT" /\ price.v <= 0
    THEN "Price must be positive"
    ELSE ""

\* The price comparison is the wrong way round.
validate_price_inverted(order_type, quantity, price) ==
    IF order_type = "LIMIT" /\ ~price.some
    THEN "Limit order must have a price"
    ELSE IF order_type = "LIMIT" /\ price.v >= 0
    THEN "Price must be positive"
    ELSE IF quantity.twice <= 0
    THEN "Quantity must be positive"
    ELSE IF ~quantity.isint
    THEN "Quantity must be an integer"
    ELSE ""

\* _validate: the error message raised, or "" when all four checks pass
_validate(order_type, quantity, price) ==
    IF order_type = "LIMIT" /\ ~price.some
    THEN "Limit order must have a price"
    ELSE IF order_type = "LIMIT" /\ price.v <= 0
    THEN "Price must be positive"
    ELSE IF quantity.twice <= 0
    THEN "Quantity must be positive"
    ELSE IF ~quantity.isint
    THEN "Quantity must be an integer"
    ELSE ""

remaining_quantity(o) == o.quantity - o.filled_quantity
is_filled(o)          == remaining_quantity(o) = 0
is_active(o)          == o.status \in {"PENDING", "PARTIALLY_FILLED"}

\* Mutant of Order_init: the identifier is drawn only once _validate has passed
init_validate_first(c, side, order_type, quantity, price, oid, ts) ==
    LET n   == OrderIDGenerator_next(c)
        id  == IF oid.some THEN oid.v ELSE n.order_id
        err == _validate(order_type, quantity, price)
    IN  [err      |-> err,
         order_id |-> id,
         _current |-> IF oid.some \/ err # "" THEN c ELSE n._current,
         order    |-> IF err # "" THEN NoOrder
                      ELSE [side |-> side, order_type |-> order_type,
                            quantity |-> quantity.twice \div 2, price |-> price,
                            order_id |-> id, timestamp |-> ts,
                            filled_quantity |-> 0, status |-> "PENDING"]]

\* The dataclass __init__ followed by __post_init__, as a function of the
\* allocator counter c and the arguments: the order_id default factory runs
\* first (drawing from id_generator), then the timestamp's, then _validate;
\* filled_quantity and status take their defaults.  When _validate raises,
\* no Order results.
Order_init(c, side, order_type, quantity, price, oid, ts) ==
    LET n   == OrderIDGenerator_next(c)
        id  == IF oid.some THEN oid.v ELSE n.order_id
        err == _validate(order_type, quantity, price)
    IN  [err      |-> err,
         order_id |-> id,
         _current |-> IF oid.some THEN c ELSE n._current,
         order    |-> IF err # "" THEN NoOrder
                      ELSE [side |-> side, order_type |-> order_type,
                            quantity |-> quantity.twice \div 2, price |-> price,
                            order_id |-> id, timestamp |-> ts,
                            filled_quantity |-> 0, status |-> "PENDING"]]

\* What a constructor call is recorded as
ConstructCall(op, c, r, order_type, quantity, price, oid) ==
    [op |-> op, err |-> r.err, ret |-> r.order_id, order_type |-> order_type,
     quantity |-> quantity, price |-> price, oid |-> oid, pre_current |-> c]

\* A constructor call as a step of the program
Construct(op, side, order_type, quantity, price, oid, ts) ==
    LET r == Order_init(current, side, order_type, quantity, price, oid, ts)
    IN  /\ oid.some \/ current <= MaxId
        /\ current' = r._current
        /\ order'   = r.order
        /\ issued'  = IF oid.some THEN issued ELSE Append(issued, r.order_id)
        /\ created' = IF oid.some \/ r.err # "" THEN created
                      ELSE Append(created, r.order_id)
        /\ last'    = ConstructCall(op, current, r, order_type, quantity, price, oid)
        /\ calls'   = <<>>
        /\ total'   = 0
        /\ gen'     = IF oid.some THEN gen ELSE Drawn(gen, r.order_id)
        /\ UNCHANGED <<other, thr>>

\* Order(side=..., order_type=..., quantity=..., price=..., order_id=..., timestamp=...)
NewOrder ==
    \E side \in Side, order_type \in OrderType, quantity \in QuantityInputs,
       price \in PriceInputs, oid \in IdInputs, ts \in Timestamps :
        Construct("Order", side, order_type, quantity, price, oid, ts)

\* create_limit_order(side, quantity, price)
create_limit_order ==
    \E side \in Side, quantity \in QuantityInputs, price \in PriceInputs,
       ts \in Timestamps :
        Construct("create_limit_order", side, "LIMIT", quantity, price, None, ts)

\* create_market_order(side, quantity)
create_market_order ==
    \E side \in Side, quantity \in QuantityInputs, ts \in Timestamps :
        Construct("create_market_order", side, "MARKET", quantity, None, None, ts)

\* The history of the calls on `order`
Record(call, got) ==
    /\ calls' = IF calls # More /\ Len(calls) < MaxCalls THEN Append(calls, call) ELSE More
    /\ total' = total + got

\* Mutants of Order_fill.
\* The over-fill check is missing.
fill_no_overfill_check(o, quantity) ==
    LET filled == [o EXCEPT !.filled_quantity = @ + quantity]
    IN  IF quantity <= 0
        THEN [err |-> "Fill quantity must be positive", info |-> <<>>, ret |-> 0,
              order |-> o]
        ELSE [err |-> "", info |-> <<>>, ret |-> quantity,
              order |-> IF is_filled(filled)
                        THEN [filled EXCEPT !.status = "FILLED"]
                        ELSE [filled EXCEPT !.status = "PARTIALLY_FILLED"]]

\* is_filled is read before filled_quantity is increased.
fill_status_stale(o, quantity) ==
    LET filled == [o EXCEPT !.filled_quantity = @ + quantity]
    IN  IF quantity <= 0
        THEN [err |-> "Fill quantity must be positive", info |-> <<>>, ret |-> 0,
              order |-> o]
        ELSE IF quantity > remaining_quantity(o)
        THEN [err |-> "Cannot fill", info |-> <<quantity, remaining_quantity(o)>>,
              ret |-> 0, order |-> o]
        ELSE [err |-> "", info |-> <<>>, ret |-> quantity,
              order |-> IF is_filled(o)
                        THEN [filled EXCEPT !.status = "FILLED"]
                        ELSE [filled EXCEPT !.status = "PARTIALLY_FILLED"]]

\* filled_quantity is increased before the over-fill check, which then
\* compares the new total with the quantity.
fill_mutate_first(o, quantity) ==
    LET filled == [o EXCEPT !.filled_quantity = @ + quantity]
    IN  IF quantity <= 0
        THEN [err |-> "Fill quantity must be positive", info |-> <<>>, ret |-> 0,
              order |-> o]
        ELSE IF filled.filled_quantity > o.quantity
        THEN [err |-> "Cannot fill", info |-> <<quantity, remaining_quantity(o)>>,
              ret |-> 0, order |-> filled]
        ELSE [err |-> "", info |-> <<>>, ret |-> quantity,
              order |-> IF is_filled(filled)
                        THEN [filled EXCEPT !.status = "FILLED"]
                        ELSE [filled EXCEPT !.status = "PARTIALLY_FILLED"]]

\* filled_quantity is assigned the quantity instead of increased by it.
fill_assign(o, quantity) ==
    LET filled == [o EXCEPT !.filled_quantity = quantity]
    IN  IF quantity <= 0
        THEN [err |-> "Fill quantity must be positive", info |-> <<>>, ret |-> 0,
              order |-> o]
        ELSE IF quantity > remaining_quantity(o)
        THEN [err |-> "Cannot fill", info |-> <<quantity, remaining_quantity(o)>>,
              ret |-> 0, order |-> o]
        ELSE [err |-> "", info |-> <<>>, ret |-> quantity,
              order |-> IF is_filled(filled)
                        THEN [filled EXCEPT !.status = "FILLED"]
                        ELSE [filled EXCEPT !.status = "PARTIALLY_FILLED"]]

\* fill refuses an order that is not active.
fill_active_only(o, quantity) ==
    LET filled == [o EXCEPT !.filled_quantity = @ + quantity]
    IN  IF quantity <= 0
        THEN [err |-> "Fill quantity must be positive", info |-> <<>>, ret |-> 0,
              order |-> o]
        ELSE IF ~is_active(o)
        THEN [err |-> "Order is not active", info |-> <<>>, ret |-> 0, order |-> o]
        ELSE IF quantity > remaining_quantity(o)
        THEN [err |-> "Cannot fill", info |-> <<quantity, remaining_quantity(o)>>,
              ret |-> 0, order |-> o]
        ELSE [err |-> "", info |-> <<>>, ret |-> quantity,
              order |-> IF is_filled(filled)
                        THEN [filled EXCEPT !.status = "FILLED"]
                        ELSE [filled EXCEPT !.status = "PARTIALLY_FILLED"]]

\* The check that the fill quantity is positive is missing.
fill_no_positive_check(o, quantity) ==
    LET filled == [o EXCEPT !.filled_quantity = @ + quantity]
    IN  IF quantity > remaining_quantity(o)
        THEN [err |-> "Cannot fill", info |-> <<quantity, remaining_quantity(o)>>,
              ret |-> 0, order |-> o]
        ELSE [err |-> "", info |-> <<>>, ret |-> quantity,
              order |-> IF is_filled(filled)
                        THEN [filled EXCEPT !.status = "FILLED"]
                        ELSE [filled EXCEPT !.status = "PARTIALLY_FILLED"]]

\* The over-fill check compares with the quantity, not with what remains.
fill_checks_total(o, quantity) ==
    LET filled == [o EXCEPT !.filled_quantity = @ + quantity]
    IN  IF quantity <= 0
        THEN [err |-> "Fill quantity must be positive", info |-> <<>>, ret |-> 0,
              order |-> o]
        ELSE IF quantity > o.quantity
        THEN [err |-> "Cannot fill", info |-> <<quantity, remaining_quantity(o)>>,
              ret |-> 0, order |-> o]
        ELSE [err |-> "", info |-> <<>>, ret |-> quantity,
              order |-> IF is_filled(filled)
                        THEN [filled EXCEPT !.status = "FILLED"]
                        ELSE [filled EXCEPT !.status = "PARTIALLY_FILLED"]]

\* Order.fill on the order o: the error raised ("" for none), the value
\* returned and the order afterwards.  "Cannot fill" carries the quantity
\* asked for and the quantity remaining.
Order_fill(o, quantity) ==
    LET filled == [o EXCEPT !.filled_quantity = @ + quantity]
    IN  IF quantity <= 0
        THEN [err |-> "Fill quantity must be positive", info |-> <<>>, ret |-> 0,
              order |-> o]
        ELSE IF quantity > remaining_quantity(o)
        THEN [err |-> "Cannot fill", info |-> <<quantity, remaining_quantity(o)>>,
              ret |-> 0, order |-> o]
        ELSE [err |-> "", info |-> <<>>, ret |-> quantity,
              order |-> IF is_filled(filled)
                        THEN [filled EXCEPT !.status = "FILLED"]
                        ELSE [filled EXCEPT !.status = "PARTIALLY_FILLED"]]

\* Mutants of Order_cancel.
\* The FILLED check is missing.
cancel_unconditional(o) ==
    [ret |-> TRUE, order |-> [o EXCEPT !.status = "CANCELLED"]]

\* cancel refuses every order that is not active.
cancel_active_only(o) ==
    IF ~is_active(o)
    THEN [ret |-> FALSE, order |-> o]
    ELSE [ret |-> TRUE, order |-> [o EXCEPT !.status = "CANCELLED"]]

\* The check names the wrong status.
cancel_wrong_status(o) ==
    IF o.status = "PARTIALLY_FILLED"
    THEN [ret |-> FALSE, order |-> o]
    ELSE [ret |-> TRUE, order |-> [o EXCEPT !.status = "CANCELLED"]]

\* cancel drops the unfilled remainder from the quantity.
cancel_discards_remainder(o) ==
    IF o.status = "FILLED"
    THEN [ret |-> FALSE, order |-> o]
    ELSE [ret |-> TRUE,
          order |-> [o EXCEPT !.status = "CANCELLED", !.quantity = o.filled_quantity]]

\* Order.cancel on the order o: the value returned and the order afterwards
Order_cancel(o) ==
    IF o.status = "FILLED"
    THEN [ret |-> FALSE, order |-> o]
    ELSE [ret |-> TRUE, order |-> [o EXCEPT !.status = "CANCELLED"]]

\* order.__hash__(): hash(self.order_id); the hash of a positive int is that int
Order_hash(o) == o.order_id

\* Mutant of Order_eq: the field-by-field comparison a dataclass generates
eq_all_fields(a, b) == a = b

\* a == b, that is a.__eq__(b): False when b is not an Order, otherwise the
\* comparison of the two order_id
Order_eq(a, b) ==
    IF b = NoOrder
    THEN FALSE
    ELSE a.order_id = b.order_id

\* order.fill(quantity)
fill(quantity) ==
    /\ order # NoOrder
    /\ LET r == Order_fill(order, quantity)
       IN  /\ order' = r.order
           /\ last' = [op |-> "fill", arg |-> quantity, err |-> r.err,
                       info |-> r.info, ret |-> r.ret,
                       pre |-> order, pre_current |-> current]
           /\ Record([op |-> "fill", arg |-> quantity, ok |-> r.err = ""], r.ret)
    /\ UNCHANGED <<current, issued, created, gen, other, thr>>

Fill == \E quantity \in FillInputs : fill(quantity)

\* order.cancel()
cancel ==
    /\ order # NoOrder
    /\ LET r == Order_cancel(order)
       IN  /\ order' = r.order
           /\ last' = [op |-> "cancel", arg |-> 0, err |-> "", info |-> <<>>,
                       ret |-> r.ret, pre |-> order, pre_current |-> current]
           /\ Record([op |-> "cancel", arg |-> 0, ok |-> r.ret], 0)
    /\ UNCHANGED <<current, issued, created, gen, other, thr>>

\* id_generator.next() called directly
GenNext ==
    /\ current < gen.start + MaxId
    /\ LET n == OrderIDGenerator_next(current)
       IN  /\ current' = n._current
           /\ issued' = Append(issued, n.order_id)
           /\ last' = [op |-> "next", err |-> "", ret |-> n.order_id,
                       pre_current |-> current, after |-> last.op]
           /\ gen' = Drawn(gen, n.order_id)
    /\ UNCHANGED <<order, created, calls, total, other, thr>>

\* id_generator.reset()
GenReset ==
    /\ current' = OrderIDGenerator_reset(current)
    /\ issued' = <<>>
    /\ created' = <<>>
    /\ last' = [op |-> "reset", err |-> "", ret |-> 0, pre_current |-> current]
    /\ UNCHANGED <<order, calls, total, gen, other, thr>>

\* ------------------------------------------------------- specifications
\* The module as imported: id_generator = OrderIDGenerator(), no Order yet
InitAlloc ==
    /\ current = 1
    /\ order = NoOrder
    /\ last = NoCall
    /\ issued = <<>>
    /\ created = <<>>
    /\ calls = <<>>
    /\ total = 0
    /\ gen = OrderIDGenerator_init(1)
    /\ other = NoOrder
    /\ thr = Idle

\* Identifier allocation and construction
NextAlloc ==
    \/ NewOrder
    \/ create_limit_order
    \/ create_market_order
    \/ GenNext
    \/ GenReset

SpecAlloc == InitAlloc /\ [][NextAlloc]_vars

\* One Order just constructed, by the first constructor call of the program
Init ==
    \E side \in Side, order_type \in OrderType, quantity \in Quantities,
       price \in PriceInputs, oid \in IdInputs, ts \in Timestamps :
        LET r == Order_init(1, side, order_type, quantity, price, oid, ts)
        IN  /\ r.err = ""
            /\ current = r._current
            /\ order = r.order
            /\ last = ConstructCall("Order", 1, r, order_type, quantity, price, oid)
            /\ issued = IF oid.some THEN <<>> ELSE <<r.order_id>>
            /\ created = issued
            /\ calls = <<>>
            /\ total = 0
            /\ gen = IF oid.some THEN OrderIDGenerator_init(1)
                     ELSE Drawn(OrderIDGenerator_init(1), r.order_id)
            /\ other = NoOrder
            /\ thr = Idle

\* The lifecycle of that Order
Next ==
    \/ Fill
    \/ cancel

Spec == Init /\ [][Next]_vars

\* ---------------------------------------------- one allocator instance
\* g = OrderIDGenerator(start), then g.next() and g.reset() calls
InitGen ==
    \E start \in StartInputs :
        /\ current = start
        /\ gen = OrderIDGenerator_init(start)
        /\ order = NoOrder
        /\ last = NoCall
        /\ issued = <<>>
        /\ created = <<>>
        /\ calls = <<>>
        /\ total = 0
        /\ other = NoOrder
        /\ thr = Idle

NextGen ==
    \/ GenNext
    \/ GenReset

SpecGen == InitGen /\ [][NextGen]_vars

\* ------------------------------------------------------- two Order objects
\* The Order a call is made on
Which == {"order", "other"}
Target(which) == IF which = "order" THEN order ELSE other

\* What a call on one of the two Orders is recorded as
PairCall(op, which, err) ==
    [op |-> op, on |-> which, err |-> err, pre_eq |-> Order_eq(order, other),
     pre_hash |-> <<Order_hash(order), Order_hash(other)>>]

\* order.fill(quantity) or other.fill(quantity)
fill_of(which, quantity) ==
    LET r == Order_fill(Target(which), quantity)
    IN  /\ order' = IF which = "order" THEN r.order ELSE order
        /\ other' = IF which = "other" THEN r.order ELSE other
        /\ last' = PairCall("fill", which, r.err)
        /\ UNCHANGED <<current, issued, created, calls, total, gen, thr>>

FillOf == \E which \in Which, quantity \in FillInputs : fill_of(which, quantity)

\* order.cancel() or other.cancel()
cancel_of(which) ==
    LET r == Order_cancel(Target(which))
    IN  /\ order' = IF which = "order" THEN r.order ELSE order
        /\ other' = IF which = "other" THEN r.order ELSE other
        /\ last' = PairCall("cancel", which, "")
        /\ UNCHANGED <<current, issued, created, calls, total, gen, thr>>

CancelOf == \E which \in Which : cancel_of(which)

\* Two Orders constructed one after the other: `order` with any valid
\* arguments, `other` with any order_id, side and type
InitEq ==
    \E side \in Side, order_type \in OrderType, quantity \in Quantities,
       price \in PriceInputs, oid \in IdInputs, ts \in Timestamps,
       side2 \in Side, order_type2 \in OrderType, oid2 \in IdInputs :
        LET r  == Order_init(1, side, order_type, quantity, price, oid, ts)
            r2 == Order_init(r._current, side2, order_type2, IntQ(2), Some(1), oid2, 1)
            ids == (IF oid.some THEN <<>> ELSE <<r.order_id>>)
                   \o (IF oid2.some THEN <<>> ELSE <<r2.order_id>>)
        IN  /\ r.err = ""
            /\ r2.err = ""
            /\ current = r2._current
            /\ order = r.order
            /\ other = r2.order
            /\ last = NoCall
            /\ issued = ids
            /\ created = ids
            /\ calls = <<>>
            /\ total = 0
            /\ gen = IF ids = <<>> THEN OrderIDGenerator_init(1)
                     ELSE Drawn(OrderIDGenerator_init(1), ids[1])
            /\ thr = Idle

NextEq ==
    \/ FillOf
    \/ CancelOf

SpecEq == InitEq /\ [][NextEq]_vars

\* ------------------------------------------- two callers of one allocator
\* next() is three accesses to self._current: the read of line 37, and the
\* read and the write of the += of line 38.  Nothing in the class keeps
\* another thread from running between them.

\* Mutant of incremented: the write-back stores the value it loaded
incremented_not(v) == v

\* self._current += 1: the value written back for the value loaded
incremented(v) == v + 1

\* The callers other than t that are inside a call
Inside(t) == {u \in Threads \ {t} : thr.pc[u] # "idle"}

\* order_id = self._current
next_read(t) ==
    /\ thr.pc[t] = "idle"
    /\ current <= MaxId
    /\ Len(issued) + Cardinality(Inside(t)) < MaxId
    /\ thr' = [thr EXCEPT !.pc[t] = "load", !.order_id[t] = current,
                          !.overlapped = @ \/ Inside(t) # {}]
    /\ UNCHANGED <<current, order, last, issued, created, calls, total, gen, other>>

\* self._current += 1, the load
next_load(t) ==
    /\ thr.pc[t] = "load"
    /\ thr' = [thr EXCEPT !.pc[t] = "store", !.tmp[t] = current]
    /\ UNCHANGED <<current, order, last, issued, created, calls, total, gen, other>>

\* self._current += 1, the store
next_store(t) ==
    /\ thr.pc[t] = "store"
    /\ current' = incremented(thr.tmp[t])
    /\ thr' = [thr EXCEPT !.pc[t] = "return", !.tmp[t] = 0]
    /\ UNCHANGED <<order, last, issued, created, calls, total, gen, other>>

\* return order_id
next_return(t) ==
    /\ thr.pc[t] = "return"
    /\ issued' = Append(issued, thr.order_id[t])
    /\ last' = [op |-> "next", err |-> "", ret |-> thr.order_id[t], thread |-> t]
    /\ gen' = Drawn(gen, thr.order_id[t])
    /\ thr' = [thr EXCEPT !.pc[t] = "idle", !.order_id[t] = 0]
    /\ UNCHANGED <<current, order, created, calls, total, other>>

NextRead   == \E t \in Threads : next_read(t)
NextLoad   == \E t \in Threads : next_load(t)
NextStore  == \E t \in Threads : next_store(t)
NextReturn == \E t \in Threads : next_return(t)

NextConc ==
    \/ NextRead
    \/ NextLoad
    \/ NextStore
    \/ NextReturn

SpecConc == InitAlloc /\ [][NextConc]_vars

\* ------------------------------------------------------------------ claims
IsFill    == last.op = "fill"
IsCancel  == last.op = "cancel"
Terminal  == {"FILLED", "CANCELLED"}
FillOk(i) == calls[i].op = "fill" /\ calls[i].ok

\* C1: after any sequence of fill and cancel calls on a constructed order,
\* 0 <= filled_quantity <= quantity.
C1_FilledWithinQuantity ==
    order # NoOrder =>
        /\ 0 <= order.filled_quantity
        /\ order.filled_quantity <= order.quantity

\* C1 witness: an over-fill attempt on a completely filled order was refused
C1_Witness ==
    /\ IsFill
    /\ last.arg > 0
    /\ last.err = "Cannot fill"
    /\ order.filled_quantity = order.quantity

\* C2: status = FILLED exactly when filled_quantity = quantity, in every
\* state reached by fill and cancel calls.
C2_FilledIffComplete ==
    order # NoOrder =>
        ((order.status = "FILLED") <=> (order.filled_quantity = order.quantity))

\* C2 witness: the order was filled completely and cancel() was then called
C2_Witness ==
    /\ IsCancel
    /\ last.pre.filled_quantity = last.pre.quantity
    /\ order.status = "FILLED"

\* C3: fill(q) with 0 < q <= remaining_quantity succeeds in any status: it
\* returns q, adds q to filled_quantity, and sets status to FILLED when
\* nothing remains and to PARTIALLY_FILLED otherwise.
C3_FillSucceeds ==
    (IsFill /\ 0 < last.arg /\ last.arg <= remaining_quantity(last.pre)) =>
        /\ last.err = ""
        /\ last.ret = last.arg
        /\ order.filled_quantity = last.pre.filled_quantity + last.arg
        /\ order.status = IF order.quantity - order.filled_quantity = 0
                          THEN "FILLED" ELSE "PARTIALLY_FILLED"

\* C3 witness: a partially filled order took a further fill that left a remainder
C3_Witness ==
    /\ IsFill
    /\ last.err = ""
    /\ last.pre.status = "PARTIALLY_FILLED"
    /\ order.status = "PARTIALLY_FILLED"

\* C4: fill(q) fails with "Fill quantity must be positive" when q <= 0 and
\* with "Cannot fill" (carrying q and the remaining quantity) when
\* q > remaining_quantity, and a failed fill changes no field of the order.
C4_FillFailsAtomically ==
    IsFill =>
        /\ last.arg <= 0 => last.err = "Fill quantity must be positive"
        /\ (last.arg > 0 /\ last.arg > remaining_quantity(last.pre)) =>
               /\ last.err = "Cannot fill"
               /\ last.info = <<last.arg, remaining_quantity(last.pre)>>
        /\ last.err # "" => order = last.pre

\* C4 witness: an over-fill of a partially filled order was refused
C4_Witness ==
    /\ IsFill
    /\ last.err = "Cannot fill"
    /\ last.pre.status = "PARTIALLY_FILLED"
    /\ order = last.pre

\* C5: on a fresh order of quantity Q, fill(a) then fill(b) with a, b > 0 and
\* a + b <= Q both succeed and leave filled_quantity = a + b, with status
\* FILLED when a + b = Q and PARTIALLY_FILLED otherwise; and after any calls
\* filled_quantity is the sum of what the successful fills returned.
C5_FillsAddUp ==
    /\ order # NoOrder => order.filled_quantity = total
    /\ (/\ calls # More
        /\ Len(calls) = 2
        /\ calls[1].op = "fill"
        /\ calls[2].op = "fill"
        /\ calls[1].arg > 0
        /\ calls[2].arg > 0
        /\ calls[1].arg + calls[2].arg <= order.quantity) =>
           /\ calls[1].ok
           /\ calls[2].ok
           /\ order.filled_quantity = calls[1].arg + calls[2].arg
           /\ order.status = IF calls[1].arg + calls[2].arg = order.quantity
                             THEN "FILLED" ELSE "PARTIALLY_FILLED"

\* C5 witness: two fills on a fresh order that together leave a remainder
C5_Witness ==
    /\ calls # More
    /\ Len(calls) = 2
    /\ FillOk(1)
    /\ FillOk(2)
    /\ calls[1].arg + calls[2].arg < order.quantity

\* C6: cancel() on a PENDING, PARTIALLY_FILLED or CANCELLED order returns
\* True and leaves status = CANCELLED, changing nothing else; on a CANCELLED
\* order it leaves the order as it was.
C6_CancelSucceeds ==
    (IsCancel /\ last.pre.status \in {"PENDING", "PARTIALLY_FILLED", "CANCELLED"}) =>
        /\ last.ret = TRUE
        /\ order = [last.pre EXCEPT !.status = "CANCELLED"]
        /\ last.pre.status = "CANCELLED" => order = last.pre

\* C6 witness: a second cancel() right after a first
C6_Witness ==
    /\ calls # More
    /\ Len(calls) = 2
    /\ calls[1].op = "cancel"
    /\ calls[2].op = "cancel"
    /\ calls[2].ok
    /\ last.pre.status = "CANCELLED"

\* C7: cancel() on a FILLED order returns False and changes nothing.
C7_CancelFilledRefused ==
    (IsCancel /\ last.pre.status = "FILLED") =>
        /\ last.ret = FALSE
        /\ order = last.pre
        /\ order.status = "FILLED"
        /\ order.filled_quantity = order.quantity

\* C7 witness: two fills complete the order, then cancel() is refused
C7_Witness ==
    /\ calls # More
    /\ Len(calls) = 3
    /\ FillOk(1)
    /\ FillOk(2)
    /\ calls[3].op = "cancel"
    /\ ~calls[3].ok
    /\ order.status = "FILLED"

\* C8 (as claimed): once the status is FILLED or CANCELLED every fill fails
\* and neither filled_quantity nor status changes any more.
C8_TerminalIsInert ==
    ((IsFill \/ IsCancel) /\ last.pre.status \in Terminal) =>
        /\ IsFill => last.err # ""
        /\ order.filled_quantity = last.pre.filled_quantity
        /\ order.status = last.pre.status

\* C9: a CANCELLED order with r > 0 remaining accepts fill(q) for every
\* 0 < q <= r and moves to PARTIALLY_FILLED (q < r) or FILLED (q = r).
C9_CancelledStillFills ==
    (/\ IsFill
     /\ last.pre.status = "CANCELLED"
     /\ 0 < last.arg
     /\ last.arg <= remaining_quantity(last.pre)) =>
        /\ last.err = ""
        /\ last.arg < remaining_quantity(last.pre) => order.status = "PARTIALLY_FILLED"
        /\ last.arg = remaining_quantity(last.pre) => order.status = "FILLED"

\* C9 witness: a cancelled order was filled in part
C9_Witness ==
    /\ IsFill
    /\ last.pre.status = "CANCELLED"
    /\ last.err = ""
    /\ order.status = "PARTIALLY_FILLED"

\* C10: the identifiers next() returned since the last reset are 1, 2, ..., N
\* in that order (so pairwise distinct, each 1 more than the one before), and
\* the orders built with the default order_id since then have pairwise
\* distinct order_ids that increase in creation order, each one issued.
C10_IdsSequential ==
    /\ \A i \in 1..Len(issued) : issued[i] = i
    /\ \A i, j \in 1..Len(issued) : i < j => issued[i] < issued[j]
    /\ \A i \in 1..(Len(issued) - 1) : issued[i + 1] = issued[i] + 1
    /\ \A i, j \in 1..Len(created) : i < j => created[i] < created[j]
    /\ \A i \in 1..Len(created) : \E j \in 1..Len(issued) : created[i] = issued[j]

\* C10 witness: three identifiers issued with no reset, the first and the
\* third to orders
C10_Witness ==
    /\ issued = <<1, 2, 3>>
    /\ created = <<1, 3>>
    /\ order # NoOrder
    /\ order.order_id = 3

\* C14: no fill or cancel call, successful or failing, in any status, makes
\* filled_quantity smaller than it was before the call.
C14_FilledNeverDecreases ==
    (IsFill \/ IsCancel) =>
        /\ order.filled_quantity >= last.pre.filled_quantity
        /\ remaining_quantity(order) <= remaining_quantity(last.pre)

\* C14 witness: a fill raised the filled quantity of an order already filled in part
C14_Witness ==
    /\ IsFill
    /\ last.pre.filled_quantity > 0
    /\ order.filled_quantity > last.pre.filled_quantity

\* C16: fill and cancel, successful or failing, leave order_id, side,
\* order_type, quantity, price and timestamp and the allocator counter as
\* they were; cancel also leaves filled_quantity as it was.
C16_FillCancelFrame ==
    (IsFill \/ IsCancel) =>
        /\ order.order_id = last.pre.order_id
        /\ order.side = last.pre.side
        /\ order.order_type = last.pre.order_type
        /\ order.quantity = last.pre.quantity
        /\ order.price = last.pre.price
        /\ order.timestamp = last.pre.timestamp
        /\ current = last.pre_current
        /\ IsCancel => order.filled_quantity = last.pre.filled_quantity

\* C16 witness: a partially filled order was cancelled and keeps what was filled
C16_Witness ==
    /\ IsCancel
    /\ last.pre.status = "PARTIALLY_FILLED"
    /\ order.status = "CANCELLED"
    /\ order.filled_quantity > 0

\* C18: on a FILLED order every fill(q) fails ("Fill quantity must be
\* positive" for q <= 0, "Cannot fill" for q > 0) and every cancel() returns
\* False; the order stays FILLED with filled_quantity = quantity.
C18_FilledIsAbsorbing ==
    ((IsFill \/ IsCancel) /\ last.pre.status = "FILLED") =>
        /\ (IsFill /\ last.arg <= 0) => last.err = "Fill quantity must be positive"
        /\ (IsFill /\ last.arg > 0) => last.err = "Cannot fill"
        /\ IsCancel => last.ret = FALSE
        /\ order.status = "FILLED"
        /\ order.filled_quantity = order.quantity
        /\ order = last.pre

\* C18 witness: a filled order refused a cancel and then a fill
C18_Witness ==
    /\ calls # More
    /\ Len(calls) = 3
    /\ FillOk(1)
    /\ calls[2].op = "cancel" /\ ~calls[2].ok
    /\ calls[3].op = "fill" /\ ~calls[3].ok /\ calls[3].arg > 0
    /\ order.status = "FILLED"

\* C19: PENDING implies filled_quantity = 0, PARTIALLY_FILLED implies
\* 0 < filled_quantity < quantity, and the status is never PENDING after a
\* successful fill or a cancel, nor ever PENDING again once it was not.
C19_StatusMatchesFilled ==
    order # NoOrder =>
        /\ order.status = "PENDING" => order.filled_quantity = 0
        /\ order.status = "PARTIALLY_FILLED" =>
               (0 < order.filled_quantity /\ order.filled_quantity < order.quantity)
        /\ (IsFill /\ last.err = "") => order.status # "PENDING"
        /\ IsCancel => order.status # "PENDING"
        /\ ((IsFill \/ IsCancel) /\ last.pre.status # "PENDING") =>
               order.status # "PENDING"

\* C19 witness: two refused fills in a row leave a fresh order PENDING
C19_Witness ==
    /\ calls # More
    /\ Len(calls) = 2
    /\ IsFill
    /\ last.err # ""
    /\ order.status = "PENDING"
    /\ order.filled_quantity = 0

IsConstruct == last.op \in {"Order", "create_limit_order", "create_market_order"}
BadPrice    == last.order_type = "LIMIT" /\ (~last.price.some \/ last.price.v <= 0)

\* C12 (as claimed): construction fails with the first violated rule (absent
\* Limit price, then Limit price <= 0, then quantity <= 0), and a Market
\* order with absent price and quantity > 0 constructs successfully.
C12_ValidationAsClaimed ==
    IsConstruct =>
        /\ (last.order_type = "LIMIT" /\ ~last.price.some) =>
               last.err = "Limit order must have a price"
        /\ (last.order_type = "LIMIT" /\ last.price.some /\ last.price.v <= 0) =>
               last.err = "Price must be positive"
        /\ (~BadPrice /\ last.quantity.twice <= 0) =>
               last.err = "Quantity must be positive"
        /\ (last.order_type = "MARKET" /\ ~last.price.some /\ last.quantity.twice > 0) =>
               (last.err = "" /\ order # NoOrder)

\* C12 (amended): the same precedence; a Market order with absent price and
\* an int quantity > 0 constructs successfully, and a quantity > 0 that is not
\* an int fails with "Quantity must be an integer".
C12_ValidationPrecedence ==
    IsConstruct =>
        /\ (last.order_type = "LIMIT" /\ ~last.price.some) =>
               last.err = "Limit order must have a price"
        /\ (last.order_type = "LIMIT" /\ last.price.some /\ last.price.v <= 0) =>
               last.err = "Price must be positive"
        /\ (~BadPrice /\ last.quantity.twice <= 0) =>
               last.err = "Quantity must be positive"
        /\ (~BadPrice /\ last.quantity.twice > 0 /\ ~last.quantity.isint) =>
               last.err = "Quantity must be an integer"
        /\ (/\ last.order_type = "MARKET"
            /\ ~last.price.some
            /\ last.quantity.twice > 0
            /\ last.quantity.isint) =>
               (last.err = "" /\ order # NoOrder)
        /\ last.err # "" => order = NoOrder

\* C12 witness: a Limit order with no price and a quantity of 0 was refused
\* for the price
C12_Witness ==
    /\ IsConstruct
    /\ last.order_type = "LIMIT"
    /\ ~last.price.some
    /\ last.quantity.twice <= 0
    /\ last.err = "Limit order must have a price"

\* C13: a Limit order with price > 0 and an int quantity > 0, built by Order
\* or create_limit_order, is constructed with status PENDING,
\* filled_quantity 0, remaining_quantity = quantity, is_active and not is_filled.
C13_ValidLimitConstructs ==
    (/\ last.op \in {"Order", "create_limit_order"}
     /\ last.order_type = "LIMIT"
     /\ last.price.some
     /\ last.price.v > 0
     /\ last.quantity.isint
     /\ last.quantity.twice > 0) =>
        /\ last.err = ""
        /\ order # NoOrder
        /\ order.status = "PENDING"
        /\ order.filled_quantity = 0
        /\ 2 * order.quantity = last.quantity.twice
        /\ remaining_quantity(order) = order.quantity
        /\ is_active(order)
        /\ ~is_filled(order)

\* C13 witness: create_limit_order returned a PENDING order
C13_Witness ==
    /\ last.op = "create_limit_order"
    /\ last.err = ""
    /\ order # NoOrder
    /\ order.status = "PENDING"
    /\ order.order_type = "LIMIT"

\* C20: a construction without an explicit order_id advances the counter by
\* exactly 1 and takes the identifier it stood at, whether _validate then
\* passes or raises; a construction with an explicit order_id leaves the
\* counter as it was.
C20_ConstructionDrawsId ==
    IsConstruct =>
        /\ ~last.oid.some =>
               /\ current = last.pre_current + 1
               /\ last.ret = last.pre_current
               /\ issued # <<>>
               /\ issued[Len(issued)] = last.pre_current
        /\ last.oid.some =>
               /\ current = last.pre_current
               /\ last.ret = last.oid.v
        /\ last.err = "" => order.order_id = last.ret

\* C20 witness: a refused construction consumed identifier 1 and the next
\* order got 2
C20_Witness ==
    /\ IsConstruct
    /\ last.err = ""
    /\ ~last.oid.some
    /\ issued = <<1, 2>>
    /\ created = <<2>>
    /\ order.order_id = 2

\* C11 (as claimed): reset() puts the counter of every allocator instance
\* back to its initial value, so the next next() returns what the
\* allocator's very first next() returned.
C11_ResetRestoresInitial ==
    /\ last.op = "reset" => current = gen.start
    /\ (last.op = "next" /\ last.after = "reset") => last.ret = gen.first

\* C15: two Orders are equal exactly when their order_id are equal, whatever
\* their side, type, quantity, price, filled quantity and status; equal
\* Orders have equal hashes; an Order never equals a non-Order; and a fill or
\* a cancel on either Order changes neither the comparison nor the hashes.
C15_EqualityIsById ==
    /\ Order_eq(order, other) <=> order.order_id = other.order_id
    /\ Order_eq(other, order) <=> Order_eq(order, other)
    /\ Order_eq(order, order) /\ Order_eq(other, other)
    /\ Order_eq(order, other) => Order_hash(order) = Order_hash(other)
    /\ ~Order_eq(order, NoOrder)
    /\ last.op \in {"fill", "cancel"} =>
           /\ Order_eq(order, other) = last.pre_eq
           /\ <<Order_hash(order), Order_hash(other)>> = last.pre_hash

\* Two equal Orders that differ in side, quantity and status, after a
\* successful fill on one of them
C15_Witness ==
    /\ last.op = "fill"
    /\ last.err = ""
    /\ Order_eq(order, other)
    /\ order.side # other.side
    /\ order.quantity # other.quantity
    /\ order.status # other.status

\* Two of the identifiers returned are the same
DuplicateIssued ==
    \E i, j \in 1..Len(issued) : i < j /\ issued[i] = issued[j]

\* C17: the allocator does not protect itself against concurrent callers.
\* As long as no call began while another was in progress, the identifiers
\* returned are 1, 2, 3, ... ; the same identifier is returned twice only
\* when calls overlapped.
C17_UniqueOnlyWhenSerialized ==
    /\ ~thr.overlapped => \A i \in 1..Len(issued) : issued[i] = i
    /\ DuplicateIssued => thr.overlapped

\* Two callers interleaved between the read and the write-back and both
\* were returned the same identifier
C17_Witness ==
    /\ last.op = "next"
    /\ Len(issued) = 2
    /\ issued[1] = issued[2]
    /\ thr.overlapped
====
